---- MODULE Spec2Model ----
(***************************************************************************)
(* The appointment lifecycle of the voicebot backend: the calendar         *)
(* service, the recording service with its processing pipeline, and the    *)
(* two periodic drivers (the in-process scheduler and the management       *)
(* command).                                                               *)
(*                                                                         *)
(* Time is an integer number of seconds.  One operation reads the clock    *)
(* once: timezone.now() has the same value throughout an action.           *)
(* A stored row is a record; Model.save() writes every field of the        *)
(* in-memory instance, so a save is modelled as the write of the whole     *)
(* instance that was fetched earlier (with its changed attributes).        *)
(* An operation's result is a record [db, exc, ...]: the store after the   *)
(* call and the exception that left it ("none" for a normal return).       *)
(***************************************************************************)
EXTENDS Integers, Sequences, FiniteSets, TLC

\* ------------------------------------------------------------------ bounds
\* numbers of appointments that are ever created
MaxAppts == 1
\* the clock runs over 0, TimeStep, ..., MaxTime * TimeStep seconds
MaxTime == 3
\* appointments in the store when two or more are handled by one tick
IsoAppts == 2
\* appointments in the store the queries are asked about
QueryAppts == 2
\* recordings kept per appointment
MaxRecs == 2
\* conversations ever created per appointment
MaxConvs == 2
\* successful reminder sends counted per appointment
MaxSent == 2
\* threads that run the start-recording scan at the same time
MaxTicks == 2
\* seconds between two clock readings of the model
TimeStep == 30

\* reminder_minutes_before of the appointments created: a lead of two clock steps
ReminderMinutes == {(2 * TimeStep) \div 60}

AppointmentIds == 1..MaxAppts
Times == {k * TimeStep : k \in 0..MaxTime}

\* ------------------------------------------------------------------ values
\* a CharField/TextField left NULL
NoText == ""
\* a DateTimeField / IntegerField left NULL
NoTime == -1
\* a UUIDField left NULL
NoId == <<>>

STATUS_CHOICES == {"scheduled", "reminder_sent", "recording", "completed", "cancelled"}

RECORDING_STATUS_CHOICES == {"pending", "recording", "processing", "completed", "failed"}

\* int(x / d) of Python: truncation towards zero
PyInt(n, d) == IF n >= 0 THEN n \div d ELSE -((-n) \div d)

\* `except Exception`: every exception of the model is an Exception subclass
ExceptionClasses == {"DoesNotExist", "TypeError", "ValueError", "StoreError"}

\* a try block that handles DoesNotExist alone
CatchNarrow(r) == IF r.exc = "DoesNotExist" THEN [r EXCEPT !.exc = "none"] ELSE r

\* a try block whose `except Exception` clause logs and goes on
CatchException(r) == IF r.exc \in ExceptionClasses THEN [r EXCEPT !.exc = "none"] ELSE r

\* the threads that may be inside scheduler.start_recordings
Procs == 1..MaxTicks

\* the locals of a thread that is not inside the scan: pc is the statement it
\* is at, rows the appointments as its query read them, ids the appointments
\* its for loop has still to handle (the first is the one in hand),
\* appointment the instance start_recording fetched, recording the recording
\* the stop scan fetched (its position i and the instance)
Idle == [pc |-> "idle", rows |-> <<>>, ids |-> <<>>, appointment |-> <<>>, recording |-> <<>>]

\* SpeechToTextService._poll_transcription: the default of max_attempts
max_attempts == 60

\* the locals of the poll loop: pc tells whether a call is in its loop or has
\* returned, attempts is the local of that name, polls counts the requests
\* the call has made, result names what it returned
NotPolling == [pc |-> "idle", attempts |-> 0, polls |-> 0, result |-> ""]

VARIABLES now, appts, recs, convs, convSeq, remindersSent, logged, mailed, returned, last,
          running, poll

vars == <<now, appts, recs, convs, convSeq, remindersSent, logged, mailed, returned, last,
          running, poll>>

\* the store, as one value handed to the operations; log collects the
\* appointments about which the operation writes an error or a warning to
\* the logger, mail the mails <<appointment, kind>> the mail API accepts
\* from it
DB == [appts |-> appts, recs |-> recs, convs |-> convs, convSeq |-> convSeq,
       remindersSent |-> remindersSent, log |-> {}, mail |-> {}]

Install(db) ==
    /\ appts' = db.appts
    /\ recs' = db.recs
    /\ convs' = db.convs
    /\ convSeq' = db.convSeq
    /\ remindersSent' = db.remindersSent
    /\ logged' = db.log
    /\ mailed' = db.mail
    /\ returned' = {}

\* what the last operation was and how it ended (history, not program state);
\* returned is the set of appointments the last query gave its caller
Last(op, a, exc, ok, conv, scen) == [op |-> op, appt |-> a, exc |-> exc, ok |-> ok, conv |-> conv, scen |-> scen]

Ret(db, exc) == [db |-> db, exc |-> exc]

\* logger.error of an except clause that handles one appointment
LogError(r, a) == IF r.exc # "none" THEN [r EXCEPT !.db.log = @ \cup {a}] ELSE r

\* logger.warning of the reminder loop when send_reminder returned False
LogWarning(r, a) == IF r.exc = "none" /\ ~r.ok THEN [r EXCEPT !.db.log = @ \cup {a}] ELSE r

\* ------------------------------------------------------------ appointments
CalendarAppointment(start, end, dur, auto, rmb) ==
    [start_time |-> start, end_time |-> end, duration_minutes |-> dur,
     auto_record |-> auto, reminder_minutes_before |-> rmb,
     reminder_sent |-> FALSE, status |-> "scheduled",
     conversation_id |-> NoId, conversation_link_sent |-> FALSE]

\* CalendarService.create_appointment: the row is stored under a fresh id
create_appointment(db, a, start, end, auto, rmb) ==
    LET duration == end - start
        duration_minutes == PyInt(duration, 60)
    IN Ret([db EXCEPT !.appts = a :> CalendarAppointment(start, end, duration_minutes, auto, rmb) @@ db.appts,
                      !.recs = a :> <<>> @@ db.recs,
                      !.convSeq = a :> 0 @@ db.convSeq,
                      !.remindersSent = a :> 0 @@ db.remindersSent], "none")

\* CreateAppointmentSerializer.validate: end_time <= start_time is rejected
CreateAppointmentSerializer_validate(start, end) == ~(end <= start)

\* ----------------------------------------------------------- fault inputs
\* One operation call meets at most one fault, named by the place it strikes:
\*   conv        create_appointment_conversation fails before it wrote anything
\*   conv_link   the conversation row is created, the appointment.save() linking it fails
\*   email       the mail is not accepted (no API key, a status other than 201, an exception)
\*   rem_save    the reminder mail went out, the appointment.save() after it fails
\*   lookup      the query of get_recording_by_appointment fails
\*   rec_create  AppointmentRecording.objects.create fails
\*   start_save  the recording row is created, the appointment.save() after it fails
\*   rec_save    recording.save() of the stop step fails
\*   appt_save   appointment.save() of the stop step fails
Faults == {"none", "conv", "conv_link", "email", "rem_save", "lookup", "rec_create", "start_save", "rec_save", "appt_save"}

\* ----------------------------------------------------------- conversations
\* a conversation is created whether or not the appointment is linked to one
create_conversation_always(db, a, fault) ==
    IF a \notin DOMAIN db.appts THEN [db |-> db, exc |-> "DoesNotExist", conv |-> NoId]
    ELSE IF fault = "conv" THEN [db |-> db, exc |-> "StoreError", conv |-> NoId]
    ELSE
      LET conversation == <<a, db.convSeq[a] + 1>>
          created == [db EXCEPT !.convs = @ \cup {conversation}, !.convSeq[a] = @ + 1]
          linked == [created EXCEPT !.appts[a].conversation_id = conversation]
      IN IF fault = "conv_link"
         THEN [db |-> created, exc |-> "StoreError", conv |-> NoId]
         ELSE [db |-> linked, exc |-> "none", conv |-> conversation]

\* CalendarService.create_appointment_conversation; the result carries the
\* conversation returned (NoId when the call raised)
create_appointment_conversation(db, a, fault) ==
    IF a \notin DOMAIN db.appts THEN [db |-> db, exc |-> "DoesNotExist", conv |-> NoId]
    ELSE IF fault = "conv" THEN [db |-> db, exc |-> "StoreError", conv |-> NoId]
    ELSE
      LET appointment == db.appts[a] IN
      IF appointment.conversation_id # NoId /\ appointment.conversation_id \in db.convs
      THEN [db |-> db, exc |-> "none", conv |-> appointment.conversation_id]
      ELSE
        LET conversation == <<a, db.convSeq[a] + 1>>
            created == [db EXCEPT !.convs = @ \cup {conversation}, !.convSeq[a] = @ + 1]
            linked == [created EXCEPT !.appts[a] = [appointment EXCEPT !.conversation_id = conversation]]
        IN IF fault = "conv_link"
           THEN [db |-> created, exc |-> "StoreError", conv |-> NoId]
           ELSE [db |-> linked, exc |-> "none", conv |-> conversation]

\* ---------------------------------------------------------------- reminders
\* a reminder query with no upper end of the window
get_appointments_reminder_time_passed(db, t) ==
    {a \in DOMAIN db.appts :
        /\ db.appts[a].status = "scheduled"
        /\ db.appts[a].reminder_sent = FALSE
        /\ db.appts[a].auto_record = TRUE
        /\ t >= db.appts[a].start_time - db.appts[a].reminder_minutes_before * 60}

\* a reminder query that looks at the window alone
get_appointments_in_reminder_window(db, t) ==
    {a \in DOMAIN db.appts :
        /\ db.appts[a].auto_record = TRUE
        /\ LET reminder_time == db.appts[a].start_time - db.appts[a].reminder_minutes_before * 60
           IN t >= reminder_time /\ t < db.appts[a].start_time}

\* CalendarService.get_appointments_needing_reminders
get_appointments_needing_reminders(db, t) ==
    {a \in DOMAIN db.appts :
        /\ db.appts[a].status = "scheduled"
        /\ db.appts[a].reminder_sent = FALSE
        /\ db.appts[a].auto_record = TRUE
        /\ LET reminder_time == db.appts[a].start_time - db.appts[a].reminder_minutes_before * 60
           IN t >= reminder_time /\ t < db.appts[a].start_time}

\* a send_reminder that gives the appointment up when the mail is not accepted
send_reminder_gives_up(db, a, fault) ==
    IF a \notin DOMAIN db.appts THEN [db |-> db, exc |-> "none", ok |-> FALSE]
    ELSE
      LET appointment == db.appts[a] IN
      IF appointment.reminder_sent THEN [db |-> db, exc |-> "none", ok |-> FALSE]
      ELSE
        LET conv == CatchException(create_appointment_conversation(db, a, fault))
            saved == [conv.db EXCEPT
                        !.appts[a] = [appointment EXCEPT !.reminder_sent = TRUE, !.status = "reminder_sent"],
                        !.remindersSent[a] = IF @ < MaxSent THEN @ + 1 ELSE @]
            given_up == [conv.db EXCEPT !.appts[a] = [appointment EXCEPT !.status = "cancelled"]]
            reminder == <<a, "reminder">>
        IN IF fault = "email" THEN [db |-> given_up, exc |-> "none", ok |-> FALSE]
           ELSE IF fault = "rem_save"
           THEN [db |-> [conv.db EXCEPT !.mail = @ \cup {reminder}], exc |-> "none", ok |-> FALSE]
           ELSE [db |-> [saved EXCEPT !.mail = @ \cup {reminder}], exc |-> "none", ok |-> TRUE]

\* CalendarService.send_reminder; ok is the Boolean it returns. The
\* appointment instance is fetched before the conversation is created and
\* saved after the mail was accepted.
send_reminder(db, a, fault) ==
    IF a \notin DOMAIN db.appts THEN [db |-> db, exc |-> "none", ok |-> FALSE]
    ELSE
      LET appointment == db.appts[a] IN
      IF appointment.reminder_sent THEN [db |-> db, exc |-> "none", ok |-> FALSE]
      ELSE
        LET conv == CatchException(create_appointment_conversation(db, a, fault))
            saved == [conv.db EXCEPT
                        !.appts[a] = [appointment EXCEPT !.reminder_sent = TRUE, !.status = "reminder_sent"],
                        !.remindersSent[a] = IF @ < MaxSent THEN @ + 1 ELSE @]
            reminder == <<a, "reminder">>
        IN IF fault = "email" THEN [db |-> conv.db, exc |-> "none", ok |-> FALSE]
           ELSE IF fault = "rem_save"
           THEN [db |-> [conv.db EXCEPT !.mail = @ \cup {reminder}], exc |-> "none", ok |-> FALSE]
           ELSE [db |-> [saved EXCEPT !.mail = @ \cup {reminder}], exc |-> "none", ok |-> TRUE]

\* --------------------------------------------------------------- recordings
AppointmentRecording(status, started, ended, audio) ==
    [recording_status |-> status, recording_started_at |-> started,
     recording_ended_at |-> ended, duration_seconds |-> NoTime,
     audio_file |-> audio, transcribed_text |-> NoText,
     intent |-> NoText, summary |-> NoText,
     keywords |-> <<>>, entities |-> <<>>, domain_terms |-> <<>>,
     action_items |-> <<>>, topics |-> <<>>,
     processed_at |-> NoTime, error_message |-> NoText]

\* the position of an appointment's newest recording, 0 when the query finds
\* none; the except clause of the method turns a failed query into None too
get_recording_by_appointment(db, a, fault) ==
    IF fault = "lookup" THEN 0
    ELSE IF a \in DOMAIN db.recs THEN Len(db.recs[a]) ELSE 0

\* a start that creates the recording row and leaves the appointment alone
start_recording_row_only(db, t, a, fault) ==
    IF a \notin DOMAIN db.appts THEN Ret(db, "DoesNotExist")
    ELSE IF fault = "rec_create" THEN Ret(db, "StoreError")
    ELSE Ret([db EXCEPT !.recs[a] = Append(@, AppointmentRecording("recording", t, NoTime, FALSE))], "none")

\* AppointmentRecordingService.start_recording
start_recording(db, t, a, fault) ==
    IF a \notin DOMAIN db.appts THEN Ret(db, "DoesNotExist")
    ELSE IF fault = "rec_create" THEN Ret(db, "StoreError")
    ELSE
      LET appointment == db.appts[a]
          created == [db EXCEPT !.recs[a] = Append(@, AppointmentRecording("recording", t, NoTime, FALSE))]
          saved == [created EXCEPT !.appts[a] = [appointment EXCEPT !.status = "recording"]]
      IN IF fault = "start_save" THEN Ret(created, "StoreError") ELSE Ret(saved, "none")

\* AppointmentRecordingService.stop_recording for recording i of appointment
\* a (recording_id); the file at audio_file_path is kept with the row
stop_recording(db, t, a, i, fault) ==
    IF a \notin DOMAIN db.recs \/ i \notin 1..Len(db.recs[a]) THEN Ret(db, "DoesNotExist")
    ELSE
      LET recording == db.recs[a][i]
          duration == t - recording.recording_started_at
          stopped == [recording EXCEPT !.audio_file = TRUE,
                                       !.recording_ended_at = t,
                                       !.duration_seconds = PyInt(duration, 1),
                                       !.recording_status = "processing"]
      IN IF recording.recording_started_at = NoTime THEN Ret(db, "TypeError")
         ELSE IF fault = "rec_save" THEN Ret(db, "StoreError")
         ELSE Ret([db EXCEPT !.recs[a][i] = stopped], "none")

\* CalendarService.send_recording_started_email: it never raises; the
\* appointment is fetched anew and saved with conversation_link_sent set
send_recording_started_email(db, a, fault) ==
    IF a \notin DOMAIN db.appts \/ fault = "email" THEN Ret(db, "none")
    ELSE Ret([db EXCEPT !.appts[a].conversation_link_sent = TRUE,
                        !.mail = @ \cup {<<a, "recording_started">>}], "none")

\* CalendarService.start_recording_notification: a mail and nothing stored;
\* it never raises
start_recording_notification(db, a, fault) ==
    IF a \notin DOMAIN db.appts \/ fault = "email" THEN Ret(db, "none")
    ELSE Ret([db EXCEPT !.mail = @ \cup {<<a, "recording_notification">>}], "none")

\* a start query whose window leaves out the end time
get_appointments_before_end(db, t) ==
    {a \in DOMAIN db.appts :
        /\ db.appts[a].status \in {"scheduled", "reminder_sent"}
        /\ db.appts[a].auto_record = TRUE
        /\ db.appts[a].start_time <= t
        /\ db.appts[a].end_time > t}

\* CalendarService.get_appointments_to_start_recording
get_appointments_to_start_recording(db, t) ==
    {a \in DOMAIN db.appts :
        /\ db.appts[a].status \in {"scheduled", "reminder_sent"}
        /\ db.appts[a].auto_record = TRUE
        /\ db.appts[a].start_time <= t
        /\ db.appts[a].end_time >= t}

\* a stop query that looks at the end time alone
get_appointments_past_end(db, t) ==
    {a \in DOMAIN db.appts : db.appts[a].end_time <= t}

\* CalendarService.get_appointments_to_stop_recording
get_appointments_to_stop_recording(db, t) ==
    {a \in DOMAIN db.appts :
        /\ db.appts[a].status = "recording"
        /\ db.appts[a].end_time <= t}

\* a queryset of appointments is read in Meta.ordering, by start_time (rows
\* of equal start_time in the order of their ids)
RECURSIVE Ordered(_, _)
Ordered(db, S) ==
    IF S = {} THEN <<>>
    ELSE LET first == CHOOSE a \in S : \A b \in S :
                          \/ db.appts[a].start_time < db.appts[b].start_time
                          \/ db.appts[a].start_time = db.appts[b].start_time /\ a <= b
         IN <<first>> \o Ordered(db, S \ {first})

\* the fault an environment holds for one appointment: env.appt names the
\* appointment whose handling meets env.fault
FaultFor(env, a) == IF env.appt = a THEN env.fault ELSE "none"

\* ---------------------------------------------------------------- scheduler
\* scheduler.send_reminders, the body of its for loop over the rows read
RECURSIVE send_reminders_loop(_, _, _)
send_reminders_loop(db, ids, env) ==
    IF ids = <<>> THEN Ret(db, "none")
    ELSE LET a == Head(ids)
             one == CatchException(LogError(LogWarning(send_reminder(db, a, FaultFor(env, a)), a), a))
         IN IF one.exc # "none" THEN Ret(one.db, one.exc)
            ELSE send_reminders_loop(one.db, Tail(ids), env)

\* scheduler.send_reminders (Command.send_reminders is the same code)
send_reminders(db, t, env) ==
    CatchException(
        IF env.query = "reminders" THEN Ret(db, "StoreError")
        ELSE send_reminders_loop(db, Ordered(db, get_appointments_needing_reminders(db, t)), env))

\* scheduler.start_recordings, the try block of one appointment; row is the
\* appointment as the scan's query read it
start_recordings_one(db, t, row, a, fault) ==
    LET conversation == create_appointment_conversation(db, a, fault) IN
    IF conversation.exc # "none" THEN Ret(conversation.db, conversation.exc)
    ELSE
      LET existing_recording == get_recording_by_appointment(conversation.db, a, fault) IN
      IF existing_recording # 0 THEN Ret(conversation.db, "none")
      ELSE
        LET recording == start_recording(conversation.db, t, a, fault) IN
        IF recording.exc # "none" THEN recording
        ELSE IF ~row.conversation_link_sent
             THEN send_recording_started_email(recording.db, a, fault)
             ELSE recording

\* the loop of a scan with no try block around the handling of one appointment
RECURSIVE start_recordings_loop_abort(_, _, _, _, _)
start_recordings_loop_abort(db, t, rows, ids, env) ==
    IF ids = <<>> THEN Ret(db, "none")
    ELSE LET a == Head(ids)
             one == LogError(start_recordings_one(db, t, rows[a], a, FaultFor(env, a)), a)
         IN IF one.exc # "none" THEN Ret(one.db, one.exc)
            ELSE start_recordings_loop_abort(one.db, t, rows, Tail(ids), env)

RECURSIVE start_recordings_loop(_, _, _, _, _)
start_recordings_loop(db, t, rows, ids, env) ==
    IF ids = <<>> THEN Ret(db, "none")
    ELSE LET a == Head(ids)
             one == CatchException(LogError(start_recordings_one(db, t, rows[a], a, FaultFor(env, a)), a))
         IN IF one.exc # "none" THEN Ret(one.db, one.exc)
            ELSE start_recordings_loop(one.db, t, rows, Tail(ids), env)

\* scheduler.start_recordings
start_recordings(db, t, env) ==
    CatchException(
        IF env.query = "start" THEN Ret(db, "StoreError")
        ELSE start_recordings_loop(db, t, db.appts, Ordered(db, get_appointments_to_start_recording(db, t)), env))

\* scheduler.stop_recordings, the try block of one appointment
stop_recordings_one(db, t, row, a, fault) ==
    LET recording == get_recording_by_appointment(db, a, fault) IN
    IF recording = 0 \/ db.recs[a][recording].recording_status # "recording" THEN Ret(db, "none")
    ELSE
      LET rec == db.recs[a][recording]
          duration == t - rec.recording_started_at
          stopped == [rec EXCEPT !.recording_status = "processing",
                                 !.recording_ended_at = t,
                                 !.duration_seconds = PyInt(duration, 1)]
          saved_rec == [db EXCEPT !.recs[a][recording] = stopped]
          saved == [saved_rec EXCEPT !.appts[a] = [row EXCEPT !.status = "completed"]]
      IN IF fault = "rec_save" THEN Ret(db, "StoreError")
         ELSE IF fault = "appt_save" THEN Ret(saved_rec, "StoreError")
         ELSE Ret(saved, "none")

RECURSIVE stop_recordings_loop(_, _, _, _, _)
stop_recordings_loop(db, t, rows, ids, env) ==
    IF ids = <<>> THEN Ret(db, "none")
    ELSE LET a == Head(ids)
             one == CatchException(LogError(stop_recordings_one(db, t, rows[a], a, FaultFor(env, a)), a))
         IN IF one.exc # "none" THEN Ret(one.db, one.exc)
            ELSE stop_recordings_loop(one.db, t, rows, Tail(ids), env)

\* scheduler.stop_recordings
stop_recordings(db, t, env) ==
    CatchException(
        IF env.query = "stop" THEN Ret(db, "StoreError")
        ELSE stop_recordings_loop(db, t, db.appts, Ordered(db, get_appointments_to_stop_recording(db, t)), env))

\* scheduler.process_appointments: one tick
process_appointments(db, t, env) ==
    LET reminded == send_reminders(db, t, env)
        started == IF reminded.exc # "none" THEN reminded ELSE start_recordings(reminded.db, t, env)
        stopped == IF started.exc # "none" THEN started ELSE stop_recordings(started.db, t, env)
    IN CatchException(stopped)

\* ------------------------------------------------------- management command
\* Command.start_recordings, the try block of one appointment
Command_start_recordings_one(db, t, a, fault) ==
    LET recording == start_recording(db, t, a, fault) IN
    IF recording.exc # "none" THEN recording
    ELSE start_recording_notification(recording.db, a, fault)

RECURSIVE Command_start_recordings_loop(_, _, _, _)
Command_start_recordings_loop(db, t, ids, env) ==
    IF ids = <<>> THEN Ret(db, "none")
    ELSE LET a == Head(ids)
             one == CatchException(LogError(Command_start_recordings_one(db, t, a, FaultFor(env, a)), a))
         IN IF one.exc # "none" THEN Ret(one.db, one.exc)
            ELSE Command_start_recordings_loop(one.db, t, Tail(ids), env)

\* Command.start_recordings
Command_start_recordings(db, t, env) ==
    CatchException(
        IF env.query = "start" THEN Ret(db, "StoreError")
        ELSE Command_start_recordings_loop(db, t, Ordered(db, get_appointments_to_start_recording(db, t)), env))

\* Command.stop_recordings, the try block of one appointment
Command_stop_recordings_one(db, t, row, a, fault) ==
    LET recording == get_recording_by_appointment(db, a, fault) IN
    IF recording = 0 \/ db.recs[a][recording].recording_status # "recording" THEN Ret(db, "none")
    ELSE
      LET rec == db.recs[a][recording]
          stopped == [rec EXCEPT !.recording_status = "pending", !.recording_ended_at = t]
          saved_rec == [db EXCEPT !.recs[a][recording] = stopped]
          saved == [saved_rec EXCEPT !.appts[a] = [row EXCEPT !.status = "completed"]]
      IN IF fault = "rec_save" THEN Ret(db, "StoreError")
         ELSE IF fault = "appt_save" THEN Ret(saved_rec, "StoreError")
         ELSE Ret(saved, "none")

RECURSIVE Command_stop_recordings_loop(_, _, _, _, _)
Command_stop_recordings_loop(db, t, rows, ids, env) ==
    IF ids = <<>> THEN Ret(db, "none")
    ELSE LET a == Head(ids)
             one == CatchException(LogError(Command_stop_recordings_one(db, t, rows[a], a, FaultFor(env, a)), a))
         IN IF one.exc # "none" THEN Ret(one.db, one.exc)
            ELSE Command_stop_recordings_loop(one.db, t, rows, Tail(ids), env)

\* Command.stop_recordings
Command_stop_recordings(db, t, env) ==
    CatchException(
        IF env.query = "stop" THEN Ret(db, "StoreError")
        ELSE Command_stop_recordings_loop(db, t, db.appts, Ordered(db, get_appointments_to_stop_recording(db, t)), env))

\* Command.handle: the three scans, with no try block of its own
Command_handle(db, t, env) ==
    LET reminded == send_reminders(db, t, env)
        started == IF reminded.exc # "none" THEN reminded ELSE Command_start_recordings(reminded.db, t, env)
        stopped == IF started.exc # "none" THEN started ELSE Command_stop_recordings(started.db, t, env)
    IN stopped

\* ------------------------------------------------------------------ updates
\* a keyword argument that carries a time: a datetime when a caller of the
\* service passes one, a str when the PUT view passes request.data on
Datetime(t) == [py |-> "datetime", v |-> t]

\* the attribute an appointment gets from a keyword argument
Attr(kwargs, key, stored) == IF key \in DOMAIN kwargs THEN kwargs[key] ELSE stored

\* CalendarService.update_appointment
update_appointment(db, a, kwargs) ==
    IF a \notin DOMAIN db.appts THEN Ret(db, "DoesNotExist")
    ELSE
      LET appointment == db.appts[a]
          timed == "start_time" \in DOMAIN kwargs \/ "end_time" \in DOMAIN kwargs
          start == Attr(kwargs, "start_time", Datetime(appointment.start_time))
          end == Attr(kwargs, "end_time", Datetime(appointment.end_time))
          \* end - start raises TypeError unless both are datetimes
          subtracts == start.py = "datetime" /\ end.py = "datetime"
          duration_minutes == IF timed THEN PyInt(end.v - start.v, 60)
                              ELSE Attr(kwargs, "duration_minutes", appointment.duration_minutes)
          updated == [appointment EXCEPT
                        !.start_time = start.v,
                        !.end_time = end.v,
                        !.duration_minutes = duration_minutes,
                        !.status = Attr(kwargs, "status", @),
                        !.reminder_sent = Attr(kwargs, "reminder_sent", @)]
      IN IF timed /\ ~subtracts THEN Ret(db, "TypeError")
         ELSE Ret([db EXCEPT !.appts[a] = updated], "none")

\* CalendarService.cancel_appointment
cancel_appointment(db, a) == update_appointment(db, a, "status" :> "cancelled")

\* the keyword arguments of the model: one field, or both times
FieldKwargs ==
    {"status" :> st : st \in STATUS_CHOICES}
    \cup {"duration_minutes" :> d : d \in {0, 2}}
    \cup {"reminder_sent" :> FALSE}

TimeKwargs(py) ==
    {"start_time" :> [py |-> py, v |-> t] : t \in Times}
    \cup {"end_time" :> [py |-> py, v |-> t] : t \in Times}

\* ----------------------------------------------------------------- pipeline
\* what the collaborators of one process_recording run answer
Scenario(tr, it, en, su) == [transcribe |-> tr, intent |-> it, entity |-> en, summary |-> su]

NoScenario == Scenario("", "", "", "")

Scenarios ==
    {Scenario("ok", "ok", "ok", "ok"), Scenario("error", "ok", "ok", "ok"),
     Scenario("ok", "error", "ok", "ok"), Scenario("ok", "ok", "error", "ok"),
     Scenario("ok", "ok", "ok", "error")}

\* Python values: what a service returns is a tuple or a dict
PyTuple(items) == [py |-> "tuple", items |-> items]

PyDict(items) == [py |-> "dict", items |-> items]

\* value[key] with a str key: a dict answers, a tuple raises TypeError
Subscript(value, key) ==
    IF value.py = "dict"
    THEN IF key \in DOMAIN value.items THEN [exc |-> "none", val |-> value.items[key]]
         ELSE [exc |-> "KeyError", val |-> NoText]
    ELSE [exc |-> "TypeError", val |-> NoText]

\* SpeechToTextService.transcribe_audio: (transcribed_text, error_message)
transcribe_audio(scen) ==
    IF scen.transcribe = "ok" THEN PyTuple(<<"transcript", NoText>>)
    ELSE PyTuple(<<NoText, "Transcription failed">>)

\* IntentClassifierService.classify_intent: (intent, confidence, summary, error_message)
classify_intent(scen) ==
    IF scen.intent = "ok" THEN PyTuple(<<"intent", "intent summary", NoText>>)
    ELSE PyTuple(<<"unknown_intent", "transcript", "Error">>)

\* EntityExtractionService.extract_entities: (entities_dict, error_message)
extract_entities(scen) ==
    IF scen.entity = "ok" THEN PyTuple(<<"entities", NoText>>)
    ELSE PyTuple(<<"empty", "Error">>)

\* value.get(key, default) of a dict
GetDefault(value, key, default) ==
    IF value.py = "dict" /\ key \in DOMAIN value.items THEN value.items[key] ELSE default

Raise(db, exc, msg) == [db |-> db, exc |-> exc, msg |-> msg]

\* AppointmentRecordingService.process_recording, the try block: recording i
\* of appointment a is the row of recording_id
process_recording_try(db, t, a, i, scen) ==
    IF a \notin DOMAIN db.recs \/ i \notin 1..Len(db.recs[a]) THEN Raise(db, "DoesNotExist", "")
    ELSE
      LET recording == db.recs[a][i] IN
      IF ~recording.audio_file THEN Raise(db, "ValueError", "No audio file to process")
      ELSE
        \* Step 1: transcribe
        LET transcription_result == transcribe_audio(scen)
            status1 == Subscript(transcription_result, "status")
            text == Subscript(transcription_result, "text")
            failed == [recording EXCEPT
                         !.recording_status = "failed",
                         !.error_message = GetDefault(transcription_result, "error", "Transcription failed")]
            rec1 == [recording EXCEPT !.transcribed_text = text.val]
            \* Step 2: classify intent
            intent_result == classify_intent(scen)
            status2 == Subscript(intent_result, "status")
            rec2 == IF status2.val = "success"
                    THEN [rec1 EXCEPT !.intent = Subscript(intent_result, "intent").val,
                                      !.summary = GetDefault(intent_result, "summary", NoText)]
                    ELSE rec1
            \* Step 3: extract entities
            entity_result == extract_entities(scen)
            status3 == Subscript(entity_result, "status")
            rec3 == IF status3.val = "success"
                    THEN [rec2 EXCEPT !.keywords = GetDefault(entity_result, "keywords", <<>>),
                                      !.entities = GetDefault(entity_result, "entities", <<>>),
                                      !.domain_terms = GetDefault(entity_result, "domain_terms", <<>>),
                                      !.action_items = GetDefault(entity_result, "action_items", <<>>),
                                      !.topics = GetDefault(entity_result, "topics", <<>>)]
                    ELSE rec2
            \* Step 4: the detailed summary; its own except clause keeps the intent summary
            rec4 == IF scen.summary = "ok" THEN [rec3 EXCEPT !.summary = "detailed summary"] ELSE rec3
            \* Step 5: completed, and the appointment with it
            rec5 == [rec4 EXCEPT !.recording_status = "completed", !.processed_at = t]
            completed == [db EXCEPT !.recs[a][i] = rec5, !.appts[a].status = "completed",
                                    !.mail = @ \cup {<<a, "completion_summary">>}]
        IN IF status1.exc # "none" THEN Raise(db, status1.exc, status1.exc)
           ELSE IF status1.val # "success" THEN Raise([db EXCEPT !.recs[a][i] = failed], "none", "")
           ELSE IF text.exc # "none" THEN Raise(db, text.exc, text.exc)
           ELSE IF status2.exc # "none" THEN Raise(db, status2.exc, status2.exc)
           ELSE IF status3.exc # "none" THEN Raise(db, status3.exc, status3.exc)
           ELSE Raise(completed, "none", "")

\* an except clause that marks the row failed and returns
process_recording_swallowed(db, t, a, i, scen) ==
    LET r == process_recording_try(db, t, a, i, scen) IN
    IF r.exc \in {"none", "DoesNotExist"} THEN Ret(r.db, r.exc)
    ELSE Ret([r.db EXCEPT !.recs[a][i].recording_status = "failed",
                          !.recs[a][i].error_message = r.msg], "none")

\* an except clause that raises on and leaves the row as it is
process_recording_unhandled(db, t, a, i, scen) ==
    LET r == process_recording_try(db, t, a, i, scen) IN Ret(r.db, r.exc)

\* an except clause that marks the row failed and keeps no text of the error
process_recording_no_message(db, t, a, i, scen) ==
    LET r == process_recording_try(db, t, a, i, scen) IN
    IF r.exc \in {"none", "DoesNotExist"} THEN Ret(r.db, r.exc)
    ELSE Ret([r.db EXCEPT !.recs[a][i].recording_status = "failed"], r.exc)

\* AppointmentRecordingService.process_recording with its except clauses:
\* DoesNotExist is raised on; any other exception marks the row as it is in
\* the store failed, keeps str(e) and is raised on
process_recording(db, t, a, i, scen) ==
    LET r == process_recording_try(db, t, a, i, scen) IN
    IF r.exc \in {"none", "DoesNotExist"} THEN Ret(r.db, r.exc)
    ELSE Ret([r.db EXCEPT !.recs[a][i].recording_status = "failed",
                          !.recs[a][i].error_message = r.msg], r.exc)

\* an upload that stores the recording and leaves the processing to a later call
upload_without_processing(db, t, a, scen) ==
    IF a \notin DOMAIN db.appts THEN Ret(db, "DoesNotExist")
    ELSE Ret([db EXCEPT !.recs[a] = Append(@, AppointmentRecording("processing", t, t, TRUE))], "none")

\* AppointmentRecordingService.upload_and_process_recording
upload_and_process_recording(db, t, a, scen) ==
    IF a \notin DOMAIN db.appts THEN Ret(db, "DoesNotExist")
    ELSE
      LET recording == AppointmentRecording("processing", t, t, TRUE)
          created == [db EXCEPT !.recs[a] = Append(@, recording)]
      IN process_recording(created, t, a, Len(created.recs[a]), scen)

\* the environments of one run of the scans: no fault, one scan's query
\* failing, or one appointment's handling meeting one fault
NoFault == [appt |-> 0, fault |-> "none", query |-> "none"]

Envs ==
    {[appt |-> 0, fault |-> "none", query |-> q] : q \in {"none", "reminders", "start", "stop"}}
    \cup {[appt |-> a, fault |-> f, query |-> "none"] : a \in DOMAIN appts, f \in Faults \ {"none"}}

\* the model keeps MaxRecs recordings and MaxConvs conversations an appointment
WithinBounds(db) ==
    \A a \in DOMAIN db.appts : Len(db.recs[a]) <= MaxRecs /\ db.convSeq[a] <= MaxConvs

Init ==
    /\ now = 0
    /\ appts = <<>>
    /\ recs = <<>>
    /\ convs = {}
    /\ convSeq = <<>>
    /\ remindersSent = <<>>
    /\ logged = {}
    /\ mailed = {}
    /\ running = [p \in Procs |-> Idle]
    /\ poll = NotPolling
    /\ returned = {}
    /\ last = Last("init", 0, "none", FALSE, NoId, NoScenario)

\* CalendarAppointmentListView.post
CreateAppointment ==
    \E start \in Times, end \in Times, auto \in BOOLEAN, rmb \in ReminderMinutes :
        LET a == Cardinality(DOMAIN appts) + 1 IN
        /\ a \in AppointmentIds
        /\ CreateAppointmentSerializer_validate(start, end)
        /\ Install(create_appointment(DB, a, start, end, auto, rmb).db)
        /\ UNCHANGED <<running, poll>>
        /\ last' = Last("create_appointment", a, "none", TRUE, NoId, NoScenario)
        /\ UNCHANGED now

\* the clock
Advance ==
    /\ now + TimeStep \in Times
    /\ now' = now + TimeStep
    /\ UNCHANGED <<running, poll>>
    /\ last' = Last("advance", 0, "none", FALSE, NoId, NoScenario)
    /\ logged' = {}
    /\ mailed' = {}
    /\ returned' = {}
    /\ UNCHANGED <<appts, recs, convs, convSeq, remindersSent>>

\* one run of the scheduler's job in an environment of E
RunTick(E) ==
    \E env \in E :
        LET r == process_appointments(DB, now, env) IN
        /\ WithinBounds(r.db)
        /\ Install(r.db)
        /\ UNCHANGED <<running, poll>>
        /\ last' = Last("tick", 0, r.exc, r.exc = "none", NoId, NoScenario)
        /\ UNCHANGED now

\* one run of `manage.py process_appointments` in an environment of E
RunCommand(E) ==
    \E env \in E :
        LET r == Command_handle(DB, now, env) IN
        /\ WithinBounds(r.db)
        /\ Install(r.db)
        /\ UNCHANGED <<running, poll>>
        /\ last' = Last("command", 0, r.exc, r.exc = "none", NoId, NoScenario)
        /\ UNCHANGED now

\* the drivers where queries, mails and writes may fail
Tick == RunTick(Envs)

CommandRun == RunCommand(Envs)

\* the drivers where nothing fails
QuietTick == RunTick({NoFault})

QuietCommandRun == RunCommand({NoFault})

\* a caller of the service moves an appointment to a status
SetStatus ==
    \E a \in DOMAIN appts, st \in STATUS_CHOICES :
        LET r == update_appointment(DB, a, "status" :> st) IN
        /\ Install(r.db)
        /\ UNCHANGED <<running, poll>>
        /\ last' = Last("update_appointment", a, r.exc, r.exc = "none", NoId, NoScenario)
        /\ UNCHANGED now

\* a caller of the service updates an appointment
UpdateAppointment ==
    \E a \in DOMAIN appts, kwargs \in FieldKwargs \cup TimeKwargs("datetime") :
        LET r == update_appointment(DB, a, kwargs) IN
        /\ Install(r.db)
        /\ UNCHANGED <<running, poll>>
        /\ last' = Last("update_appointment", a, r.exc, r.exc = "none", NoId, NoScenario)
        /\ UNCHANGED now

\* CalendarAppointmentDetailView.put: request.data goes to the service as it
\* came, a time as the string the client sent; an exception becomes a 500
PutAppointment ==
    \E a \in DOMAIN appts, data \in FieldKwargs \cup TimeKwargs("str") :
        LET r == CatchException(update_appointment(DB, a, data)) IN
        /\ Install(r.db)
        /\ UNCHANGED <<running, poll>>
        /\ last' = Last("put", a, r.exc, r.db # DB, NoId, NoScenario)
        /\ UNCHANGED now

\* CancelAppointmentView.post
CancelAppointment ==
    \E a \in DOMAIN appts :
        LET r == cancel_appointment(DB, a) IN
        /\ Install(r.db)
        /\ UNCHANGED <<running, poll>>
        /\ last' = Last("cancel_appointment", a, r.exc, TRUE, NoId, NoScenario)
        /\ UNCHANGED now

\* SendAppointmentReminderView.post: the manual reminder
SendReminder ==
    \E a \in DOMAIN appts, fault \in {"none", "conv", "conv_link", "email", "rem_save"} :
        LET r == send_reminder(DB, a, fault) IN
        /\ WithinBounds(r.db)
        /\ Install(r.db)
        /\ UNCHANGED <<running, poll>>
        /\ last' = Last("send_reminder", a, r.exc, r.ok, NoId, NoScenario)
        /\ UNCHANGED now

\* UploadAppointmentRecordingView.post, for an id that may name no appointment
UploadRecording ==
    \E a \in AppointmentIds, scen \in Scenarios :
        LET r == upload_and_process_recording(DB, now, a, scen) IN
        /\ WithinBounds(r.db)
        /\ Install(r.db)
        /\ UNCHANGED <<running, poll>>
        /\ last' = Last("upload", a, r.exc, r.exc = "none", NoId, scen)
        /\ UNCHANGED now

\* a caller ensures the conversation of an appointment; last.ok tells whether
\* the conversation it got existed before the call
EnsureConversation ==
    \E a \in AppointmentIds, fault \in {"none", "conv", "conv_link"} :
        LET r == create_appointment_conversation(DB, a, fault) IN
        /\ WithinBounds(r.db)
        /\ Install(r.db)
        /\ UNCHANGED <<running, poll>>
        /\ last' = Last("create_appointment_conversation", a, r.exc, r.exc = "none" /\ r.conv \in convs, r.conv, NoScenario)
        /\ UNCHANGED now

\* ConversationDetailView.delete
DeleteConversation ==
    \E c \in convs :
        /\ convs' = convs \ {c}
        /\ UNCHANGED <<running, poll>>
        /\ last' = Last("delete_conversation", c[1], "none", TRUE, c, NoScenario)
        /\ logged' = {}
        /\ mailed' = {}
        /\ returned' = {}
        /\ UNCHANGED <<now, appts, recs, convSeq, remindersSent>>

NextSched == CreateAppointment \/ Advance \/ Tick \/ CommandRun

\* the periodic drivers alone, no user at work
SpecSched == Init /\ [][NextSched]_vars

Next ==
    \/ CreateAppointment \/ Advance \/ QuietTick \/ QuietCommandRun
    \/ SetStatus \/ CancelAppointment \/ SendReminder \/ UploadRecording

\* the drivers and the users of the API, one operation after the other
Spec == Init /\ [][Next]_vars

NextEdit == CreateAppointment \/ UpdateAppointment \/ PutAppointment \/ CancelAppointment

\* appointments being created and edited
SpecEdit == Init /\ [][NextEdit]_vars

NextConv == CreateAppointment \/ EnsureConversation \/ DeleteConversation \/ SendReminder

\* the conversation of an appointment
SpecConv == Init /\ [][NextConv]_vars

\* the store after IsoAppts calls of create_appointment for auto-recorded
\* appointments, and the drivers' clock at its start
RECURSIVE Created(_, _, _)
Created(n, starts, ends) ==
    IF n = 0 THEN [appts |-> <<>>, recs |-> <<>>, convs |-> {}, convSeq |-> <<>>, remindersSent |-> <<>>,
               log |-> {}, mail |-> {}]
    ELSE create_appointment(Created(n - 1, starts, ends), n, starts[n], ends[n], TRUE,
                            CHOOSE rmb \in ReminderMinutes : TRUE).db

InitIso ==
    \E starts \in [1..IsoAppts -> {TimeStep, 2 * TimeStep}], ends \in [1..IsoAppts -> {3 * TimeStep}] :
        /\ \A n \in 1..IsoAppts : CreateAppointmentSerializer_validate(starts[n], ends[n])
        /\ now = 0
        /\ appts = Created(IsoAppts, starts, ends).appts
        /\ recs = Created(IsoAppts, starts, ends).recs
        /\ convs = {}
        /\ convSeq = Created(IsoAppts, starts, ends).convSeq
        /\ remindersSent = Created(IsoAppts, starts, ends).remindersSent
        /\ logged = {}
        /\ mailed = {}
        /\ running = [p \in Procs |-> Idle]
        /\ poll = NotPolling
        /\ returned = {}
        /\ last = Last("create_appointment", IsoAppts, "none", TRUE, NoId, NoScenario)

NextIso == Advance \/ Tick

\* the scheduler at work on several appointments
SpecIso == InitIso /\ [][NextIso]_vars

\* a caller of the recording service starts a recording, for an id that may
\* name no appointment
StartRecording ==
    \E a \in AppointmentIds, fault \in {"none", "rec_create", "start_save"} :
        LET r == start_recording(DB, now, a, fault) IN
        /\ WithinBounds(r.db)
        /\ Install(r.db)
        /\ UNCHANGED <<running, poll>>
        /\ last' = Last("start_recording", a, r.exc, r.exc = "none", NoId, NoScenario)
        /\ UNCHANGED now

\* a caller of the recording service stops the newest recording of an
\* appointment, or asks for a recording that does not exist
StopRecording ==
    \E a \in AppointmentIds, fault \in {"none", "rec_save"} :
        LET r == stop_recording(DB, now, a, get_recording_by_appointment(DB, a, "none"), fault) IN
        /\ Install(r.db)
        /\ UNCHANGED <<running, poll>>
        /\ last' = Last("stop_recording", a, r.exc, r.exc = "none", NoId, NoScenario)
        /\ UNCHANGED now

\* a caller of the recording service processes the newest recording of an
\* appointment, or asks for a recording that does not exist
ProcessRecording ==
    \E a \in AppointmentIds, scen \in Scenarios :
        LET r == process_recording(DB, now, a, get_recording_by_appointment(DB, a, "none"), scen) IN
        /\ Install(r.db)
        /\ UNCHANGED <<running, poll>>
        /\ last' = Last("process_recording", a, r.exc, r.exc = "none", NoId, scen)
        /\ UNCHANGED now

NextRec == CreateAppointment \/ Advance \/ StartRecording \/ StopRecording \/ ProcessRecording

\* the recording service called directly
SpecRec == Init /\ [][NextRec]_vars

NextLife ==
    \/ CreateAppointment \/ Advance \/ QuietTick
    \/ CancelAppointment \/ SendReminder \/ UploadRecording

\* the life of an appointment under the scheduler and the calls of its
\* owner: cancel, manual reminder, upload
SpecLife == Init /\ [][NextLife]_vars

\* the rows a query can meet: every status and flag an update can leave,
\* one clock step long, starting one to three steps after the clock's start
QueryRows ==
    {[CalendarAppointment(start, start + TimeStep, PyInt(TimeStep, 60), auto, rmb)
         EXCEPT !.status = st, !.reminder_sent = rs] :
       start \in {TimeStep, 2 * TimeStep, 3 * TimeStep}, auto \in BOOLEAN,
       rmb \in ReminderMinutes, st \in STATUS_CHOICES, rs \in BOOLEAN}

InitQuery ==
    /\ now = 0
    /\ appts \in [1..QueryAppts -> QueryRows]
    /\ recs = [a \in 1..QueryAppts |-> <<>>]
    /\ convs = {}
    /\ convSeq = [a \in 1..QueryAppts |-> 0]
    /\ remindersSent = [a \in 1..QueryAppts |-> 0]
    /\ logged = {}
    /\ mailed = {}
    /\ running = [p \in Procs |-> Idle]
    /\ poll = NotPolling
    /\ returned = {}
    /\ last = Last("init", 0, "none", FALSE, NoId, NoScenario)

\* a caller asks one of the scans' queries
Asked(op, result) ==
    /\ returned' = result
    /\ UNCHANGED <<running, poll>>
    /\ last' = Last(op, 0, "none", TRUE, NoId, NoScenario)
    /\ logged' = {}
    /\ mailed' = {}
    /\ UNCHANGED <<now, appts, recs, convs, convSeq, remindersSent>>

QueryReminders == Asked("get_appointments_needing_reminders", get_appointments_needing_reminders(DB, now))

QueryStart == Asked("get_appointments_to_start_recording", get_appointments_to_start_recording(DB, now))

QueryStop == Asked("get_appointments_to_stop_recording", get_appointments_to_stop_recording(DB, now))

NextQuery == Advance \/ QueryReminders \/ QueryStart \/ QueryStop

\* the queries of the scans, asked as the clock runs
SpecQuery == InitQuery /\ [][NextQuery]_vars

\* ------------------------------------------------------ overlapping scans
\* scheduler.start_recordings run by several threads, one statement that
\* reaches the store per step; nothing in the code holds a lock or opens a
\* transaction, so the steps of the threads interleave freely.

\* the thread goes on with the next appointment of its for loop, or returns
NextAppointment(p) ==
    LET rest == Tail(running[p].ids) IN
    IF rest = <<>> THEN Idle
    ELSE [running[p] EXCEPT !.pc = "conversation", !.ids = rest, !.appointment = <<>>]

\* appointments = CalendarService.get_appointments_to_start_recording()
ScanQuery(p) ==
    /\ running[p].pc = "idle"
    /\ LET ids == Ordered(DB, get_appointments_to_start_recording(DB, now)) IN
       /\ running' = IF ids = <<>> THEN running
                     ELSE [running EXCEPT ![p] = [pc |-> "conversation", rows |-> appts,
                                                  ids |-> ids, appointment |-> <<>>,
                                                  recording |-> <<>>]]
       /\ last' = Last("start_recordings", 0, "none", ids # <<>>, NoId, NoScenario)
    /\ Install(DB)
    /\ UNCHANGED <<now, poll>>

\* conversation = CalendarService.create_appointment_conversation(appointment.id)
ScanConversation(p) ==
    /\ running[p].pc = "conversation"
    /\ LET a == Head(running[p].ids)
           r == CatchException(LogError(create_appointment_conversation(DB, a, "none"), a))
       IN /\ WithinBounds(r.db)
          /\ Install(r.db)
          /\ running' = [running EXCEPT ![p] = IF r.conv = NoId THEN NextAppointment(p)
                                               ELSE [@ EXCEPT !.pc = "check"]]
          /\ last' = Last("start_recordings", a, "none", r.conv # NoId, r.conv, NoScenario)
    /\ UNCHANGED <<now, poll>>

\* existing_recording = get_recording_by_appointment(appointment.id), and
\* the `continue` when there is one
ScanCheck(p) ==
    /\ running[p].pc = "check"
    /\ LET a == Head(running[p].ids)
           existing_recording == get_recording_by_appointment(DB, a, "none")
       IN /\ running' = [running EXCEPT ![p] = IF existing_recording # 0 THEN NextAppointment(p)
                                               ELSE [@ EXCEPT !.pc = "get"]]
          /\ last' = Last("start_recordings", a, "none", existing_recording = 0, NoId, NoScenario)
    /\ Install(DB)
    /\ UNCHANGED <<now, poll>>

\* start_recording: appointment = CalendarAppointment.objects.get(id=appointment_id)
ScanGet(p) ==
    /\ running[p].pc = "get"
    /\ LET a == Head(running[p].ids) IN
       /\ running' = [running EXCEPT ![p] = [@ EXCEPT !.pc = "create", !.appointment = <<appts[a]>>]]
       /\ last' = Last("start_recordings", a, "none", FALSE, NoId, NoScenario)
    /\ Install(DB)
    /\ UNCHANGED <<now, poll>>

\* start_recording: AppointmentRecording.objects.create(...)
ScanCreate(p) ==
    /\ running[p].pc = "create"
    /\ LET a == Head(running[p].ids)
           created == [DB EXCEPT !.recs[a] = Append(@, AppointmentRecording("recording", now, NoTime, FALSE))]
       IN /\ WithinBounds(created)
          /\ Install(created)
          /\ running' = [running EXCEPT ![p] = [@ EXCEPT !.pc = "save"]]
          /\ last' = Last("start_recordings", a, "none", TRUE, NoId, NoScenario)
    /\ UNCHANGED <<now, poll>>

\* start_recording: appointment.status = 'recording'; appointment.save(),
\* the whole instance as it was fetched
ScanSave(p) ==
    /\ running[p].pc = "save"
    /\ LET a == Head(running[p].ids)
           appointment == running[p].appointment[1]
           saved == [DB EXCEPT !.appts[a] = [appointment EXCEPT !.status = "recording"]]
       IN /\ Install(saved)
          /\ running' = [running EXCEPT ![p] = IF ~running[p].rows[a].conversation_link_sent
                                               THEN [@ EXCEPT !.pc = "email"]
                                               ELSE NextAppointment(p)]
          /\ last' = Last("start_recordings", a, "none", TRUE, NoId, NoScenario)
    /\ UNCHANGED <<now, poll>>

\* CalendarService.send_recording_started_email(appointment.id, conversation.id)
ScanEmail(p) ==
    /\ running[p].pc = "email"
    /\ LET a == Head(running[p].ids)
           r == send_recording_started_email(DB, a, "none")
       IN /\ Install(r.db)
          /\ running' = [running EXCEPT ![p] = NextAppointment(p)]
          /\ last' = Last("start_recordings", a, "none", TRUE, NoId, NoScenario)
    /\ UNCHANGED <<now, poll>>

NextRace ==
    \/ CreateAppointment
    \/ Advance
    \/ \E p \in Procs :
          \/ ScanQuery(p)
          \/ ScanConversation(p)
          \/ ScanCheck(p)
          \/ ScanGet(p)
          \/ ScanCreate(p)
          \/ ScanSave(p)
          \/ ScanEmail(p)

\* two scans of scheduler.start_recordings at the same time
SpecRace == Init /\ [][NextRace]_vars

NextScan ==
    \/ CreateAppointment
    \/ Advance
    \/ CancelAppointment
    \/ \E p \in Procs :
          \/ ScanQuery(p)
          \/ ScanConversation(p)
          \/ ScanCheck(p)
          \/ ScanGet(p)
          \/ ScanCreate(p)
          \/ ScanSave(p)
          \/ ScanEmail(p)

\* the start scan in flight while a user cancels
SpecScan == Init /\ [][NextScan]_vars

\* ------------------------------------------------- the stop scan in flight
\* scheduler.stop_recordings, one statement that reaches the store per step,
\* so that a user's call can fall between two of them.

\* the thread goes on with the next appointment of the stop loop, or returns
NextToStop(p) ==
    LET rest == Tail(running[p].ids) IN
    IF rest = <<>> THEN Idle
    ELSE [running[p] EXCEPT !.pc = "stop_get", !.ids = rest, !.recording = <<>>]

\* appointments = CalendarService.get_appointments_to_stop_recording()
StopQuery(p) ==
    /\ running[p].pc = "idle"
    /\ LET ids == Ordered(DB, get_appointments_to_stop_recording(DB, now)) IN
       /\ running' = IF ids = <<>> THEN running
                     ELSE [running EXCEPT ![p] = [pc |-> "stop_get", rows |-> appts,
                                                  ids |-> ids, appointment |-> <<>>,
                                                  recording |-> <<>>]]
       /\ last' = Last("stop_recordings", 0, "none", ids # <<>>, NoId, NoScenario)
    /\ Install(DB)
    /\ UNCHANGED <<now, poll>>

\* recording = get_recording_by_appointment(appointment.id), and the test
\* `recording and recording.recording_status == 'recording'`
StopGet(p) ==
    /\ running[p].pc = "stop_get"
    /\ LET a == Head(running[p].ids)
           i == get_recording_by_appointment(DB, a, "none")
           stops == i # 0 /\ recs[a][i].recording_status = "recording"
       IN /\ running' = [running EXCEPT ![p] =
                            IF stops
                            THEN [@ EXCEPT !.pc = "stop_save_recording",
                                           !.recording = <<[i |-> i, row |-> recs[a][i]]>>]
                            ELSE NextToStop(p)]
          /\ last' = Last("stop_recordings", a, "none", stops, NoId, NoScenario)
    /\ Install(DB)
    /\ UNCHANGED <<now, poll>>

\* recording.recording_status = 'processing' ... recording.save(), the
\* instance as it was fetched
StopSaveRecording(p) ==
    /\ running[p].pc = "stop_save_recording"
    /\ LET a == Head(running[p].ids)
           i == running[p].recording[1].i
           rec == running[p].recording[1].row
           duration == now - rec.recording_started_at
           stopped == [rec EXCEPT !.recording_status = "processing",
                                  !.recording_ended_at = now,
                                  !.duration_seconds = PyInt(duration, 1)]
       IN /\ Install([DB EXCEPT !.recs[a][i] = stopped])
          /\ running' = [running EXCEPT ![p] = [@ EXCEPT !.pc = "stop_save_appointment"]]
          /\ last' = Last("stop_recordings", a, "none", TRUE, NoId, NoScenario)
    /\ UNCHANGED <<now, poll>>

\* appointment.status = 'completed'; appointment.save(), the row as the
\* scan's query read it
StopSaveAppointment(p) ==
    /\ running[p].pc = "stop_save_appointment"
    /\ LET a == Head(running[p].ids)
           appointment == running[p].rows[a]
       IN /\ Install([DB EXCEPT !.appts[a] = [appointment EXCEPT !.status = "completed"]])
          /\ running' = [running EXCEPT ![p] = NextToStop(p)]
          /\ last' = Last("stop_recordings", a, "none", TRUE, NoId, NoScenario)
    /\ UNCHANGED <<now, poll>>

NextStop ==
    \/ CreateAppointment
    \/ Advance
    \/ StartRecording
    \/ CancelAppointment
    \/ \E p \in Procs :
          \/ StopQuery(p)
          \/ StopGet(p)
          \/ StopSaveRecording(p)
          \/ StopSaveAppointment(p)

\* the stop scan of the scheduler with a user who starts and cancels
SpecStop == Init /\ [][NextStop]_vars

\* ------------------------------------------------------- transcription poll
\* a loop test that lets one more iteration in
while_attempts_inclusive(attempts) == attempts <= max_attempts

\* while attempts < max_attempts
while_attempts(attempts) == attempts < max_attempts

\* what one requests.get of the loop meets: a status code other than 200, a
\* 200 whose JSON status is one of the four, or an exception
PollAnswers == {"not_200", "completed", "error", "queued", "processing", "exception"}

\* the error or text the loop returns on an answer that ends it
PollResult(answer) ==
    CASE answer = "not_200" -> "Polling failed with status"
      [] answer = "completed" -> "text"
      [] answer = "error" -> "Transcription error"
      [] OTHER -> "Polling error"

\* transcribe_audio calls _poll_transcription(transcript_id)
PollStart ==
    /\ poll.pc \in {"idle", "returned"}
    /\ poll' = [pc |-> "polling", attempts |-> 0, polls |-> 0, result |-> ""]
    /\ UNCHANGED <<now, appts, recs, convs, convSeq, remindersSent, logged, mailed, returned, last, running>>

\* one iteration of the while loop
PollOnce ==
    /\ poll.pc = "polling"
    /\ while_attempts(poll.attempts)
    /\ \E answer \in PollAnswers :
          poll' = IF answer \in {"queued", "processing"}
                  THEN [poll EXCEPT !.attempts = @ + 1, !.polls = @ + 1]
                  ELSE [poll EXCEPT !.pc = "returned", !.polls = @ + 1, !.result = PollResult(answer)]
    /\ UNCHANGED <<now, appts, recs, convs, convSeq, remindersSent, logged, mailed, returned, last, running>>

\* the loop test fails: return None, "Transcription timed out after 3 minutes"
PollTimeout ==
    /\ poll.pc = "polling"
    /\ ~while_attempts(poll.attempts)
    /\ poll' = [poll EXCEPT !.pc = "returned", !.result = "Transcription timed out"]
    /\ UNCHANGED <<now, appts, recs, convs, convSeq, remindersSent, logged, mailed, returned, last, running>>

NextPoll == PollStart \/ PollOnce \/ PollTimeout

\* the thread inside _poll_transcription keeps running: each request has a
\* timeout of 30 seconds and each sleep lasts 3
SpecPoll == Init /\ [][NextPoll]_vars /\ WF_vars(PollOnce) /\ WF_vars(PollTimeout)

NextLive ==
    \/ CreateAppointment
    \/ Advance
    \/ StartRecording
    \/ UploadRecording
    \/ \E p \in Procs :
          \/ StopQuery(p)
          \/ StopGet(p)
          \/ StopSaveRecording(p)
          \/ StopSaveAppointment(p)

\* a scheduler thread keeps going statement after statement
Runs(p) ==
    /\ WF_vars(StopQuery(p))
    /\ WF_vars(StopGet(p))
    /\ WF_vars(StopSaveRecording(p))
    /\ WF_vars(StopSaveAppointment(p))

\* the scheduler runs its stop scan again and again (add_job, every minute)
\* and time keeps passing, with a user who creates appointments, starts
\* recordings and uploads them; of the three scans of a tick only the stop
\* scan selects an appointment in status recording
SpecLive == Init /\ [][NextLive]_vars /\ WF_vars(Advance) /\ \A p \in Procs : Runs(p)

\* ------------------------------------------------------------------ claims
\* the newest recording of an appointment that has one
Newest(a) == recs[a][Len(recs[a])]

\* C1: under the periodic drivers, an appointment whose reminder was sent
\* with success has reminder_sent set, is returned by
\* get_appointments_needing_reminders at no time, and no appointment has
\* more than one successful reminder.
C1_ReminderSentOnce ==
    \A a \in DOMAIN appts :
        /\ remindersSent[a] <= 1
        /\ remindersSent[a] >= 1 =>
              /\ appts[a].reminder_sent
              /\ \A t \in Times : a \notin get_appointments_needing_reminders(DB, t)

\* a reminder was sent and later ticks started and stopped the recording
C1_Witness ==
    \E a \in DOMAIN appts :
        /\ remindersSent[a] = 1
        /\ appts[a].status = "completed"
        /\ last.op = "tick"

\* C7: under the periodic drivers, an appointment in status recording whose
\* end time is t or earlier is returned by get_appointments_to_stop_recording
\* at t; a completed appointment is not returned at any time, and it stays
\* completed.
C7_StopWindow ==
    /\ [](\A a \in DOMAIN appts : \A t \in Times :
            /\ (appts[a].status = "recording" /\ appts[a].end_time <= t)
                  => a \in get_appointments_to_stop_recording(DB, t)
            /\ appts[a].status = "completed"
                  => a \notin get_appointments_to_stop_recording(DB, t))
    /\ [][\A a \in DOMAIN appts :
            appts[a].status = "completed" => appts'[a].status = "completed"]_vars

\* a tick has just stopped the recording of an appointment past its end
C7_Witness ==
    \E a \in DOMAIN appts :
        /\ last.op = "tick"
        /\ appts[a].status = "completed"
        /\ appts[a].end_time <= now
        /\ Len(recs[a]) >= 1
        /\ Newest(a).recording_status = "processing"
        /\ Newest(a).recording_ended_at = now

\* C9: a tick returns normally: the tick that ran last left no exception,
\* and no tick that can run next, whatever fails in it, leaves one.
C9_TickNeverRaises ==
    /\ last.op = "tick" => last.exc = "none"
    /\ \A env \in Envs : process_appointments(DB, now, env).exc = "none"

\* a tick in which the handling of an appointment failed has returned
C9_Witness ==
    /\ last.op = "tick"
    /\ last.exc = "none"
    /\ logged # {}

\* the recordings of an appointment that are in status recording
InRecordingState(a) == {i \in 1..Len(recs[a]) : recs[a][i].recording_status = "recording"}

\* C2: a run of the start-recording scan, by the scheduler or by the
\* management command, adds no recording to an appointment that has a
\* recording in status recording.
C2_NoFurtherRecording ==
    [][\A a \in DOMAIN appts :
          (last'.op \in {"tick", "command"} /\ InRecordingState(a) # {})
              => Len(recs'[a]) = Len(recs[a])]_vars

\* C3: an appointment has at most one recording in status recording.
C3_OneRecordingState ==
    \A a \in DOMAIN appts : Cardinality(InRecordingState(a)) <= 1

RecordingListsEmpty(r) ==
    /\ r.keywords = <<>> /\ r.entities = <<>> /\ r.domain_terms = <<>>
    /\ r.action_items = <<>> /\ r.topics = <<>>

\* C4: after an upload whose transcription failed the recording is failed
\* and has an error message; no transcript, intent, summary or entity list
\* is stored and the finalizing step has left no processed_at.
C4_TranscriptionFailureHalts ==
    (last.op = "upload" /\ last.appt \in DOMAIN appts /\ last.scen.transcribe = "error") =>
        LET r == Newest(last.appt) IN
        /\ r.recording_status = "failed"
        /\ r.error_message # NoText
        /\ r.transcribed_text = NoText
        /\ r.intent = NoText
        /\ r.summary = NoText
        /\ RecordingListsEmpty(r)
        /\ r.processed_at = NoTime

\* an upload whose transcription failed has left a failed recording
C4_Witness ==
    /\ last.op = "upload"
    /\ last.appt \in DOMAIN appts
    /\ last.scen.transcribe = "error"
    /\ Newest(last.appt).recording_status = "failed"
    /\ Newest(last.appt).recording_started_at = now

\* C5: after an upload where transcription and intent classification
\* succeeded and entity extraction failed, the recording is completed, its
\* entity lists are empty and its intent is set.
C5_EntityFailureDegrades ==
    (last.op = "upload" /\ last.appt \in DOMAIN appts
        /\ last.scen = Scenario("ok", "ok", "error", "ok")) =>
        LET r == Newest(last.appt) IN
        /\ r.recording_status = "completed"
        /\ RecordingListsEmpty(r)
        /\ r.intent # NoText

\* C6: when two calls of create_appointment_conversation for one
\* appointment return one after the other, the second returns the
\* conversation of the first and creates none.
C6_ConversationReuse ==
    [][(/\ last.op = "create_appointment_conversation" /\ last.exc = "none"
        /\ last'.op = "create_appointment_conversation" /\ last'.exc = "none"
        /\ last'.appt = last.appt)
          => /\ last'.conv = last.conv
             /\ convs' = convs
             /\ convSeq' = convSeq]_vars

\* a call has returned the one conversation ever created for the appointment
C6_Witness ==
    /\ last.op = "create_appointment_conversation"
    /\ last.ok
    /\ convSeq[last.appt] = 1
    /\ appts[last.appt].conversation_id = last.conv
    /\ convs = {last.conv}

\* C8: the duration_minutes of every stored appointment is the whole
\* number of minutes of end_time - start_time.
C8_DurationIsWholeMinutes ==
    \A a \in DOMAIN appts :
        appts[a].duration_minutes = PyInt(appts[a].end_time - appts[a].start_time, 60)

\* the store with appointment a and all that belongs to it taken away
Without(db, a) ==
    LET rest == DOMAIN db.appts \ {a} IN
    [appts |-> [b \in rest |-> db.appts[b]],
     recs |-> [b \in rest |-> db.recs[b]],
     convs |-> {c \in db.convs : c[1] # a},
     convSeq |-> [b \in rest |-> db.convSeq[b]],
     remindersSent |-> [b \in rest |-> db.remindersSent[b]],
     log |-> {}, mail |-> {}]

\* all that the store holds of appointment b
RowsOf(db, b) ==
    [appointment |-> db.appts[b], recordings |-> db.recs[b],
     conversations |-> {c \in db.convs : c[1] = b},
     created |-> db.convSeq[b], reminders |-> db.remindersSent[b]]

\* the store after the step
DBNext ==
    [appts |-> appts', recs |-> recs', convs |-> convs', convSeq |-> convSeq',
     remindersSent |-> remindersSent', log |-> logged']

\* C10: when the handling of appointment a failed in a tick, the tick leaves
\* every other appointment as a tick in which nothing fails leaves it when
\* it starts from the same store without a.
C10_FailureIsolated ==
    [][last'.op = "tick" =>
          \A a \in logged' : \A b \in DOMAIN appts \ {a} :
              RowsOf(DBNext, b) = RowsOf(process_appointments(Without(DB, a), now, NoFault).db, b)]_vars

\* a tick failed to start the recording of a, which is still due, and
\* started the recording of b, which comes after a in the scan
C10_Witness ==
    \E a \in logged : \E b \in DOMAIN appts \ logged :
        /\ last.op = "tick"
        /\ a < b
        /\ appts[a].start_time = appts[b].start_time
        /\ a \in get_appointments_to_start_recording(DB, now)
        /\ appts[b].status = "recording"
        /\ Len(recs[b]) = 1
        /\ recs[b][1].recording_started_at = now

\* C11: get_appointments_needing_reminders returns the appointments that
\* are scheduled, not reminded, auto-recorded and whose reminder time has
\* come while their start has not, and no others; none it returns has
\* started.
C11_DueForReminder ==
    last.op = "get_appointments_needing_reminders" =>
        /\ returned = {a \in DOMAIN appts :
                          /\ appts[a].status = "scheduled"
                          /\ ~appts[a].reminder_sent
                          /\ appts[a].auto_record
                          /\ appts[a].start_time - 60 * appts[a].reminder_minutes_before <= now
                          /\ now < appts[a].start_time}
        /\ \A a \in DOMAIN appts : appts[a].start_time <= now => a \notin returned

\* the query returned one appointment and left out one that was never
\* reminded and has started
C11_Witness ==
    /\ last.op = "get_appointments_needing_reminders"
    /\ \E a \in returned : \E b \in DOMAIN appts \ returned :
          /\ appts[b].status = "scheduled"
          /\ ~appts[b].reminder_sent
          /\ appts[b].auto_record
          /\ appts[b].start_time <= now

\* C12: get_appointments_to_start_recording returns the appointments that
\* are scheduled or reminder_sent, auto-recorded and for which
\* start_time <= now <= end_time, and no others.
C12_DueToStart ==
    last.op = "get_appointments_to_start_recording" =>
        /\ returned = {a \in DOMAIN appts :
                          /\ appts[a].status \in {"scheduled", "reminder_sent"}
                          /\ appts[a].auto_record
                          /\ appts[a].start_time <= now
                          /\ now <= appts[a].end_time}
        /\ \A a \in returned :
              /\ appts[a].status \notin {"recording", "completed", "cancelled"}
              /\ appts[a].auto_record

\* the query returned an appointment at its end time and left out one at
\* its start time that is recording already
C12_Witness ==
    /\ last.op = "get_appointments_to_start_recording"
    /\ \E a \in returned : appts[a].end_time = now
    /\ \E b \in DOMAIN appts \ returned :
          /\ appts[b].start_time = now
          /\ appts[b].auto_record
          /\ appts[b].status = "recording"

\* the order of the statuses an appointment goes through
Lifecycle == <<"scheduled", "reminder_sent", "recording", "completed">>

Position(st) == CHOOSE i \in 1..Len(Lifecycle) : Lifecycle[i] = st

\* a status change the state machine of the appointment allows
AllowedStatusStep(old, new) ==
    \/ old = new
    \/ old # "cancelled" /\ new # "cancelled" /\ Position(old) < Position(new)
    \/ new = "cancelled" /\ old \in {"scheduled", "reminder_sent"}

\* C13: a tick, a manual reminder, a cancel or an upload moves the status
\* of an appointment forward along scheduled, reminder_sent, recording,
\* completed, or to cancelled from scheduled or reminder_sent, and in no
\* other way.
C13_StatusMovesForward ==
    [][\A a \in DOMAIN appts : AllowedStatusStep(appts[a].status, appts'[a].status)]_vars

\* the order of the statuses a recording goes through
RecordingLifecycle == <<"pending", "recording", "processing", "completed">>

RecordingPosition(st) == CHOOSE i \in 1..Len(RecordingLifecycle) : RecordingLifecycle[i] = st

\* a status change the state machine of the recording allows
AllowedRecordingStep(old, new) ==
    \/ old = new
    \/ old # "failed" /\ new # "failed" /\ RecordingPosition(old) < RecordingPosition(new)
    \/ new = "failed" /\ old \in {"pending", "recording", "processing"}

\* C14: every operation moves the recording_status of a recording forward
\* along pending, recording, processing, completed, or to failed from
\* pending, recording or processing, and in no other way; completed and
\* failed are left by no step.
C14_RecordingMovesForward ==
    [][\A a \in DOMAIN appts : \A i \in 1..Len(recs[a]) :
          AllowedRecordingStep(recs[a][i].recording_status, recs'[a][i].recording_status)]_vars

\* C15: start_recording for an id that names no appointment raises
\* DoesNotExist and changes nothing; for an appointment, when it returns, it
\* has added one recording in status recording that started now, has left
\* all other recordings alone and has set the appointment to recording.
C15_StartRecording ==
    [][last'.op = "start_recording" =>
          LET a == last'.appt IN
          IF a \notin DOMAIN appts
          THEN last'.exc = "DoesNotExist" /\ recs' = recs /\ appts' = appts
          ELSE last'.exc = "none" =>
                 /\ Len(recs'[a]) = Len(recs[a]) + 1
                 /\ SubSeq(recs'[a], 1, Len(recs[a])) = recs[a]
                 /\ recs'[a][Len(recs'[a])].recording_status = "recording"
                 /\ recs'[a][Len(recs'[a])].recording_started_at = now
                 /\ appts'[a].status = "recording"
                 /\ \A b \in DOMAIN appts \ {a} : recs'[b] = recs[b]]_vars

\* start_recording has returned the first recording of an appointment
C15_Witness ==
    /\ last.op = "start_recording"
    /\ last.exc = "none"
    /\ appts[last.appt].status = "recording"
    /\ Len(recs[last.appt]) = 1
    /\ Newest(last.appt).recording_status = "recording"
    /\ Newest(last.appt).recording_started_at = now

\* C16: a step that stops a recording in status recording (it sets its
\* recording_ended_at), by stop_recording, by a tick or by a run of the
\* command, leaves duration_seconds = recording_ended_at -
\* recording_started_at, the recording in processing and the appointment
\* completed.
C16_StopCompletes ==
    [][\A a \in DOMAIN appts : \A i \in 1..Len(recs[a]) :
          (/\ last'.op \in {"stop_recording", "tick", "command"}
           /\ recs[a][i].recording_status = "recording"
           /\ recs'[a][i].recording_ended_at # recs[a][i].recording_ended_at)
             => /\ recs'[a][i].duration_seconds
                      = recs'[a][i].recording_ended_at - recs'[a][i].recording_started_at
                /\ recs'[a][i].recording_status = "processing"
                /\ appts'[a].status = "completed"]_vars

C17_MailAfterSave ==
    \A m \in mailed :
        LET a == m[1] IN
        /\ m[2] = "reminder" => appts[a].reminder_sent
        /\ m[2] = "recording_started" =>
              Len(recs[a]) >= 1 /\ appts[a].status \in {"recording", "completed"}
        /\ m[2] = "completion_summary" => appts[a].status = "completed"

\* C19: every stored appointment ends after it starts.
C19_EndAfterStart ==
    \A a \in DOMAIN appts : appts[a].end_time > appts[a].start_time

\* C20: however the steps of overlapping start-recording scans interleave,
\* no appointment has two recordings in state recording.
C20_OneRecordingUnderOverlap ==
    \A a \in DOMAIN recs : \A i, j \in 1..Len(recs[a]) :
        (recs[a][i].recording_status = "recording" /\ recs[a][j].recording_status = "recording")
            => i = j

\* C21: over the whole life of an appointment at most one conversation is
\* ever created for it.
C21_OneConversationEver ==
    \A a \in DOMAIN convSeq : convSeq[a] <= 1

\* C22: an appointment that is cancelled is never set to completed.
C22_CancelledStaysCancelled ==
    [][\A a \in DOMAIN appts :
          appts[a].status = "cancelled" => appts'[a].status # "completed"]_vars

C24_PollTerminates ==
    /\ [](poll.polls <= max_attempts /\ poll.attempts <= max_attempts)
    /\ ((poll.pc = "polling") ~> (poll.pc = "returned"))

\* the loop has run out of attempts and returned the timeout error
C24_Witness ==
    /\ poll.pc = "returned"
    /\ poll.result = "Transcription timed out"
    /\ poll.attempts = max_attempts
    /\ poll.polls = max_attempts

\* C25 as stated: every failed recording has an error_message and is the
\* recording get_recording_by_appointment returns for its appointment.
C25_FailedIsReturned ==
    \A a \in DOMAIN recs : \A i \in 1..Len(recs[a]) :
        recs[a][i].recording_status = "failed"
            => /\ recs[a][i].error_message # NoText
               /\ get_recording_by_appointment(DB, a, "none") = i

\* C25, amended: every failed recording has an error_message, and
\* get_recording_by_appointment returns it when the failed recording is the
\* newest of its appointment.
C25_FailedHasMessage ==
    \A a \in DOMAIN recs : \A i \in 1..Len(recs[a]) :
        recs[a][i].recording_status = "failed"
            => /\ recs[a][i].error_message # NoText
               /\ (\A j \in 1..Len(recs[a]) : j <= i)
                     => recs[a][get_recording_by_appointment(DB, a, "none")].error_message
                            = recs[a][i].error_message

\* process_recording has left the one recording of an appointment failed,
\* and the query returns it with the text of the error
C25_Witness ==
    /\ last.op = "process_recording"
    /\ last.exc = "TypeError"
    /\ last.appt \in DOMAIN recs
    /\ get_recording_by_appointment(DB, last.appt, "none") = 1
    /\ recs[last.appt][1].recording_status = "failed"
    /\ recs[last.appt][1].error_message = "TypeError"

\* C26: a process_recording run on a recording with an audio file whose
\* transcription and intent classification succeed leaves the recording
\* completed, with the detailed summary when the detailed-summary step
\* succeeds and with the summary of the intent step when it fails.
C26_SummaryFallback ==
    [][last'.op = "process_recording" =>
          LET a == last'.appt
              i == get_recording_by_appointment(DB, a, "none")
          IN (/\ i # 0
              /\ recs[a][i].audio_file
              /\ last'.scen.transcribe = "ok"
              /\ last'.scen.intent = "ok")
               => /\ recs'[a][i].recording_status = "completed"
                  /\ recs'[a][i].summary = IF last'.scen.summary = "ok" THEN "detailed summary"
                                           ELSE "intent summary"]_vars

\* C27: a tick that finds an appointment with auto_record set, status
\* scheduled or reminder_sent and start_time <= now < end_time leaves it in
\* status recording with its newest recording in state recording.
C27_TickStartsRecording ==
    [][last'.op = "tick" /\ last'.exc = "none" =>
          \A a \in DOMAIN appts :
              (/\ appts[a].auto_record
               /\ appts[a].status \in {"scheduled", "reminder_sent"}
               /\ appts[a].start_time <= now
               /\ now < appts[a].end_time)
                => /\ appts'[a].status = "recording"
                   /\ Len(recs'[a]) >= 1
                   /\ recs'[a][Len(recs'[a])].recording_status = "recording"]_vars

\* C28: under repeated ticks an appointment that is in status recording
\* with end_time <= now is completed at some later time.
C28_RecordingEnds ==
    \A a \in AppointmentIds :
        (a \in DOMAIN appts /\ appts[a].status = "recording" /\ appts[a].end_time <= now)
            ~> (a \in DOMAIN appts /\ appts[a].status = "completed")

\* C29: a step of the start scan that handles an appointment which is
\* cancelled or completed at that moment creates no recording for it, leaves
\* its status as it is and sends no mail.
C29_FinishedLeftAlone ==
    [][\A a \in DOMAIN appts :
          (/\ last'.op = "start_recordings"
           /\ last'.appt = a
           /\ appts[a].status \in {"cancelled", "completed"})
            => /\ appts'[a].status = appts[a].status
               /\ recs'[a] = recs[a]
               /\ mailed' = {}]_vars

\* C30: when the reminder scan of a tick or of a command run tried an
\* appointment that needed a reminder and the send failed, the appointment
\* keeps reminder_sent = FALSE and its status, and the reminder query
\* returns it again at every time from now on that is before its start.
C30_FailedReminderRetried ==
    [][last'.op \in {"tick", "command"} =>
          \A a \in DOMAIN appts :
              (/\ a \in get_appointments_needing_reminders(DB, now)
               /\ a \in logged'
               /\ remindersSent'[a] = remindersSent[a])
                => /\ appts'[a].reminder_sent = FALSE
                   /\ appts'[a].status = appts[a].status
                   /\ \A t \in Times :
                         (now <= t /\ t < appts[a].start_time)
                            => a \in get_appointments_needing_reminders(DBNext, t)]_vars

\* a tick has tried to remind of an appointment, the mail was not accepted,
\* and the appointment still needs its reminder
C30_Witness ==
    /\ last.op = "tick"
    /\ mailed = {}
    /\ \E a \in DOMAIN appts :
          /\ a \in logged
          /\ remindersSent[a] = 0
          /\ appts[a].status = "scheduled"
          /\ now < appts[a].start_time
          /\ a \in get_appointments_needing_reminders(DB, now)
====
